---- MODULE Spec2Model ----
(***************************************************************************)
(* ToDo backend: an Express router over a mongoose "Todo" collection.      *)
(* The collection, the schema's validators and defaults, and the five      *)
(* request handlers (createTodo, getTodo, getTodoById, updateTodo,         *)
(* deleteTodo) as documented in the repository's API documentation.        *)
(*                                                                         *)
(* Every request is one step: a handler does a single store operation.     *)
(* storeOk is whether the store answers that operation; when it does not   *)
(* the handler's catch sends the error response. The clock never runs      *)
(* backwards. The server listens before the connection to the store is    *)
(* established (index.js), so requests are served in every state of the    *)
(* connection while the process runs.                                      *)
(***************************************************************************)
EXTENDS Integers, Sequences, FiniteSets, TLC

\* ------------------------------------------------------------------ bounds
\* Number of ObjectIds the store may hand out (creates that succeed).
MaxIds == 2
\* Last reading of the millisecond clock (Date.now()).
MaxTime == 1

\* ------------------------------------------------------------- the schema
\* maxLength of title and of description.
MaxLength == 50

\* A string of n characters.
Rep(n) == [i \in 1..n |-> "a"]

\* The strings the requests carry: empty, exactly maxLength characters, one
\* more than maxLength.
Texts == {Rep(0), Rep(MaxLength), Rep(MaxLength + 1)}

\* A body field: given with a string value, or absent (undefined).
Given(t) == [given |-> TRUE, val |-> t]
Absent == [given |-> FALSE, val |-> Rep(0)]
BodyValues == {Absent} \cup {Given(t) : t \in Texts}

\* required: true on a String path rejects undefined and the empty string.
requiredOk(v) == v.given /\ Len(v.val) > 0

\* maxLengthOk with the maxLength validator left out of the schema.
maxLengthOkOff(v) == TRUE

\* maxLength: 50 rejects a string longer than 50 characters.
maxLengthOk(v) == Len(v.val) <= MaxLength

\* Document validation as run by Todo.create: both paths, both validators.
validate(title, description) ==
    /\ requiredOk(title) /\ maxLengthOk(title)
    /\ requiredOk(description) /\ maxLengthOk(description)

\* ------------------------------------------------------------ identifiers
\* 1..MaxIds are the ObjectIds the store assigns, in order; 0 is a
\* well-formed ObjectId that the store never assigns; -1 stands for a path
\* parameter that is not a well-formed ObjectId.
ObjectIds == 0..MaxIds
RequestIds == ObjectIds \cup {-1}

\* Casting the path parameter to ObjectId succeeds.
isValidObjectId(id) == id \in ObjectIds

\* ------------------------------------------------------------ the responses
ValidationMsg == "Todo validation failed"
CastMsg == "Cast to ObjectId failed"
StoreMsg == "store error"

\* The responses written in getTodo.js, as <<handler, status>>. One of them
\* is written with the key "sucess" for "success" (Best Practices, item 9);
\* the documentation does not say which.
TypoSites == {<<"getTodo", 200>>, <<"getTodo", 500>>,
              <<"getTodoById", 200>>, <<"getTodoById", 404>>,
              <<"getTodoById", 500>>}

VARIABLES
    todos,              \* the Todo collection, in the store's natural order
    nextId,             \* the next ObjectId the store assigns
    deleted,            \* stored ids on which a delete has succeeded
    now,                \* the clock, Date.now()
    createdAtDefault,   \* schema default of createdAt, read at load
    updatedAtDefault,   \* schema default of updatedAt, read at load
    typoSite,           \* the getTodo.js response keyed "sucess"
    resp,               \* the last response sent
    conn,               \* mongoose.connect: "connecting", "connected", "failed"
    proc,               \* the node process: "running" or "exited"
    exitCode            \* the exit code once the process has exited

vars == <<todos, nextId, deleted, now, createdAtDefault, updatedAtDefault,
          typoSite, resp, conn, proc, exitCode>>

\* The state of the process and of its connection to the store.
procVars == <<conn, proc, exitCode>>

\* ------------------------------------------------------- collection helpers
Stored(c, id) == \E i \in 1..Len(c) : c[i].id = id

\* find losing the first document of the result.
findSkipFirst(c) == IF c = <<>> THEN c ELSE Tail(c)

\* Todo.find({}): every document.
find(c) == c

\* Todo.findById(id): the document as a one-element sequence, or <<>> (null).
findById(c, id) == SelectSeq(c, LAMBDA d : d.id = id)

\* newDoc with the two defaults exchanged.
newDocSwapped(id, title, description, cDefault, uDefault) ==
    [id |-> id, title |-> title.val, description |-> description.val,
     createdAt |-> uDefault, updatedAt |-> cDefault]

\* The document Todo.create builds: the given fields plus the defaults.
newDoc(id, title, description, cDefault, uDefault) ==
    [id |-> id, title |-> title.val, description |-> description.val,
     createdAt |-> cDefault, updatedAt |-> uDefault]

\* updateDoc that also stamps createdAt.
updateDocStampsCreatedAt(d, title, description, t) ==
    [d EXCEPT !.title = title.val, !.description = description.val,
              !.createdAt = t, !.updatedAt = t]

\* The update applied to one document: {title, description, updatedAt}.
updateDoc(d, title, description, t) ==
    [d EXCEPT !.title = title.val, !.description = description.val,
              !.updatedAt = t]

\* Todo.findByIdAndUpdate: the matching document replaced, no validators.
updateById(c, id, title, description, t) ==
    [i \in 1..Len(c) |->
        IF c[i].id = id THEN updateDoc(c[i], title, description, t) ELSE c[i]]

\* deleteById that removes nothing.
deleteByIdKeeps(c, id) == c

\* Todo.findByIdAndDelete: the matching document removed.
deleteById(c, id) == SelectSeq(c, LAMBDA d : d.id # id)

\* The JSON body of a response. The flag is keyed "success", except in the
\* one response of getTodo.js that spells it "sucess".
Envelope(op, id, status, ok, message, detail, data) ==
    [op |-> op, id |-> id, status |-> status,
     flag |-> IF <<op, status>> = typoSite THEN "sucess" ELSE "success",
     success |-> ok, message |-> message, detail |-> detail, data |-> data]

NoResponse ==
    [op |-> "none", id |-> 0, status |-> 0, flag |-> "success",
     success |-> TRUE, message |-> "", detail |-> "", data |-> <<>>]

\* ------------------------------------------------------------- handlers
\* Each handler is a function of the request and the collection: the
\* response it sends and, for the writing handlers, the collection it
\* leaves.

\* POST /createTodos: Todo.create({title, description}), validated first.
createTodoResult(c, nid, title, description, storeOk) ==
    IF ~validate(title, description)
    THEN [todos |-> c, nextId |-> nid,
          resp |-> Envelope("createTodo", 0, 500, FALSE, ValidationMsg,
                            "internal server error", <<>>)]
    ELSE IF ~storeOk
    THEN [todos |-> c, nextId |-> nid,
          resp |-> Envelope("createTodo", 0, 500, FALSE, StoreMsg,
                            "internal server error", <<>>)]
    ELSE LET doc == newDoc(nid, title, description,
                           createdAtDefault, updatedAtDefault)
         IN [todos |-> Append(c, doc), nextId |-> nid + 1,
             resp |-> Envelope("createTodo", 0, 200, TRUE,
                               "Entry created successfully", "", <<doc>>)]

\* GET /getTodos: Todo.find({}).
getTodoResult(c, storeOk) ==
    IF ~storeOk
    THEN Envelope("getTodo", 0, 500, FALSE, "Server Error", StoreMsg, <<>>)
    ELSE Envelope("getTodo", 0, 200, TRUE, "entire Todo data", "", find(c))

\* GET /getTodo/:id: Todo.findById; a null result is answered 404, a
\* failed cast of the id is an error like any other.
getTodoByIdResult(c, id, storeOk) ==
    IF ~isValidObjectId(id)
    THEN Envelope("getTodoById", id, 500, FALSE, "Server Error", CastMsg,
                  <<>>)
    ELSE IF ~storeOk
    THEN Envelope("getTodoById", id, 500, FALSE, "Server Error", StoreMsg,
                  <<>>)
    ELSE IF findById(c, id) = <<>>
    THEN Envelope("getTodoById", id, 404, FALSE,
                  "no data find for given id", "", <<>>)
    ELSE Envelope("getTodoById", id, 200, TRUE,
                  "Todo data fetched successfully", "", findById(c, id))

\* PUT /updateTodo/:id: Todo.findByIdAndUpdate with the new title and
\* description and the current time; the result is sent as it comes, with
\* no not-found branch. The body carries both fields.
updateTodoResult(c, id, title, description, storeOk, t) ==
    IF ~isValidObjectId(id)
    THEN [todos |-> c,
          resp |-> Envelope("updateTodo", id, 500, FALSE, "Server Error",
                            CastMsg, <<>>)]
    ELSE IF ~storeOk
    THEN [todos |-> c,
          resp |-> Envelope("updateTodo", id, 500, FALSE, "Server Error",
                            StoreMsg, <<>>)]
    ELSE LET u == updateById(c, id, title, description, t)
         IN [todos |-> u,
             resp |-> Envelope("updateTodo", id, 200, TRUE,
                               "Updated successfully", "", findById(u, id))]

\* DELETE /deleteTodo/:id: Todo.findByIdAndDelete, then the success
\* response, with no not-found branch.
deleteTodoResult(c, id, storeOk) ==
    IF ~isValidObjectId(id)
    THEN [todos |-> c,
          resp |-> Envelope("deleteTodo", id, 500, FALSE, "Server Error",
                            CastMsg, <<>>)]
    ELSE IF ~storeOk
    THEN [todos |-> c,
          resp |-> Envelope("deleteTodo", id, 500, FALSE, "Server Error",
                            StoreMsg, <<>>)]
    ELSE [todos |-> deleteById(c, id),
          resp |-> Envelope("deleteTodo", id, 200, TRUE, "todo deleted", "",
                            <<>>)]

\* ------------------------------------------------------------------- Init
\* -------------------------------------------------------------- routing
\* index.js mounts the router of routes/todos.js at "/api/v1" and then
\* registers the home page at "/". A path is the mount prefix it starts
\* with ("" when it has none), the name of its next segment ("" when it
\* has none) and the id segment that may follow.
Mount == "/api/v1"

Methods == {"GET", "HEAD", "POST", "PUT", "DELETE", "OPTIONS"}

Path(prefix, name, hasId, id) ==
    [prefix |-> prefix, name |-> name, hasId |-> hasId, id |-> id]

Paths ==
    {Path("", "", FALSE, 0), Path(Mount, "", FALSE, 0),
     Path(Mount, "other", FALSE, 0), Path("", "createTodos", FALSE, 0),
     Path(Mount, "createTodos", FALSE, 0), Path(Mount, "getTodos", FALSE, 0),
     Path(Mount, "getTodo", FALSE, 0)}
    \cup {Path(Mount, n, TRUE, id) :
             n \in {"getTodo", "updateTodo", "deleteTodo"}, id \in RequestIds}

\* routes/todos.js, in the order of registration.
Route(method, name, param, handler) ==
    [method |-> method, name |-> name, param |-> param, handler |-> handler]

Routes ==
    << Route("POST", "createTodos", FALSE, "createTodo"),
       Route("GET", "getTodos", FALSE, "getTodo"),
       Route("GET", "getTodo", TRUE, "getTodoById"),
       Route("PUT", "updateTodo", TRUE, "updateTodo"),
       Route("DELETE", "deleteTodo", TRUE, "deleteTodo") >>

\* The route's path pattern matches the rest of the path.
matchPath(route, path) ==
    route.name = path.name /\ route.param = path.hasId

\* Express serves HEAD with the handler of a GET route.
handlesMethod(route, method) ==
    \/ route.method = method
    \/ method = "HEAD" /\ route.method = "GET"

\* handlerOf with the routes matched by path alone, whatever the method.
handlerOfAnyMethod(method, path) ==
    LET matching == {i \in 1..Len(Routes) : matchPath(Routes[i], path)}
    IN IF path.prefix = Mount
       THEN IF matching # {}
            THEN Routes[CHOOSE i \in matching :
                           \A j \in matching : i <= j].handler
            ELSE "notFound"
       ELSE IF path.name = "" /\ ~path.hasId
            THEN IF method \in {"GET", "HEAD"} THEN "home"
                 ELSE IF method = "OPTIONS" THEN "options"
                 ELSE "notFound"
            ELSE "notFound"

\* Under the mount the first route matching path and method answers. With
\* none, OPTIONS on a path some route matches is answered by the router
\* itself. Outside the mount GET (and so HEAD) on "/" is the home page.
\* Anything else falls through to the default not-found response.
handlerOf(method, path) ==
    LET matching == {i \in 1..Len(Routes) : matchPath(Routes[i], path)}
        handling == {i \in matching : handlesMethod(Routes[i], method)}
    IN IF path.prefix = Mount
       THEN IF handling # {}
            THEN Routes[CHOOSE i \in handling :
                           \A j \in handling : i <= j].handler
            ELSE IF method = "OPTIONS" /\ matching # {}
                 THEN "options"
                 ELSE "notFound"
       ELSE IF path.name = "" /\ ~path.hasId
            THEN IF method \in {"GET", "HEAD"} THEN "home"
                 ELSE IF method = "OPTIONS" THEN "options"
                 ELSE "notFound"
            ELSE "notFound"

\* A response that is not an envelope of the controllers: the home page,
\* the router's answer to OPTIONS, the default 404.
Bare(op, id, status) ==
    [NoResponse EXCEPT !.op = op, !.id = id, !.status = status]

\* The answer to HEAD: the status of the handler's response, no body.
headOf(method, r) ==
    IF method = "HEAD" THEN Bare("head", r.id, r.status) ELSE r

\* The handlers that call the store.
usesStore(h) ==
    h \in {Routes[i].handler : i \in 1..Len(Routes)}

\* One request through the application: the collection, the next id and
\* the response it leaves.
dispatch(method, path, title, description, c, nid, storeOk, t) ==
    LET h == handlerOf(method, path)
        same(r) == [todos |-> c, nextId |-> nid, resp |-> r]
    IN CASE h = "createTodo" ->
              createTodoResult(c, nid, title, description, storeOk)
         [] h = "getTodo" ->
              same(headOf(method, getTodoResult(c, storeOk)))
         [] h = "getTodoById" ->
              same(headOf(method, getTodoByIdResult(c, path.id, storeOk)))
         [] h = "updateTodo" ->
              LET r == updateTodoResult(c, path.id, title, description,
                                        storeOk, t)
              IN [todos |-> r.todos, nextId |-> nid, resp |-> r.resp]
         [] h = "deleteTodo" ->
              LET r == deleteTodoResult(c, path.id, storeOk)
              IN [todos |-> r.todos, nextId |-> nid, resp |-> r.resp]
         [] h = "home" -> same(Bare("home", 0, 200))
         [] h = "options" -> same(Bare("options", 0, 200))
         [] OTHER -> same(Bare("notFound", 0, 404))

\* index.js has run: the server listens and dbConnect() has started the
\* connection, which is still pending. The schema has been loaded: its two
\* defaults are two readings of the clock, the second possibly one
\* millisecond after the first.
Init ==
    /\ todos = <<>>
    /\ nextId = 1
    /\ deleted = {}
    /\ createdAtDefault = 0
    /\ updatedAtDefault \in {createdAtDefault, createdAtDefault + 1}
    /\ now = updatedAtDefault
    /\ typoSite \in TypoSites
    /\ resp = NoResponse
    /\ conn = "connecting"
    /\ proc = "running"
    /\ exitCode = 0

\* ---------------------------------------------------------------- actions
\* The clock advances.
Tick ==
    /\ now < MaxTime
    /\ now' = now + 1
    /\ UNCHANGED <<todos, nextId, deleted, createdAtDefault,
                   updatedAtDefault, typoSite, resp, procVars>>

\* dbConnect, .then: the connection is established.
dbConnectThen ==
    /\ proc = "running"
    /\ conn = "connecting"
    /\ conn' = "connected"
    /\ UNCHANGED <<todos, nextId, deleted, now, createdAtDefault,
                   updatedAtDefault, typoSite, resp, proc, exitCode>>

\* dbConnect, .catch: the callback takes no parameter, so after the first
\* log line `error.message` throws a ReferenceError and `process.env(1)` is
\* never reached. The promise of the chain is rejected with nothing to
\* handle it: node from version 15 raises that as an uncaught exception
\* and exits with code 1, node 14 prints a warning and goes on.
dbConnectCatch ==
    /\ proc = "running"
    /\ conn = "connecting"
    /\ conn' = "failed"
    /\ \/ proc' = "exited" /\ exitCode' = 1
       \/ UNCHANGED <<proc, exitCode>>
    /\ UNCHANGED <<todos, nextId, deleted, now, createdAtDefault,
                   updatedAtDefault, typoSite, resp>>

\* A request is served while the process runs; the store answers only
\* over an established connection.
Serving(storeOk) ==
    /\ proc = "running"
    /\ storeOk => conn = "connected"

\* No more than MaxIds todos are ever created.
createTodo(title, description, storeOk) ==
    LET r == createTodoResult(todos, nextId, title, description, storeOk)
    IN /\ Serving(storeOk)
       /\ r.nextId <= MaxIds + 1
       /\ todos' = r.todos
       /\ nextId' = r.nextId
       /\ resp' = r.resp
       /\ UNCHANGED <<deleted, now, createdAtDefault, updatedAtDefault,
                      typoSite, procVars>>

getTodo(storeOk) ==
    /\ Serving(storeOk)
    /\ resp' = getTodoResult(todos, storeOk)
    /\ UNCHANGED <<todos, nextId, deleted, now, createdAtDefault,
                   updatedAtDefault, typoSite, procVars>>

\* A client asks for ids it has been given, for a well-formed id that was
\* never assigned, or for a malformed one.
getTodoById(id, storeOk) ==
    /\ Serving(storeOk)
    /\ id < nextId
    /\ resp' = getTodoByIdResult(todos, id, storeOk)
    /\ UNCHANGED <<todos, nextId, deleted, now, createdAtDefault,
                   updatedAtDefault, typoSite, procVars>>

updateTodo(id, title, description, storeOk) ==
    LET r == updateTodoResult(todos, id, title, description, storeOk, now)
    IN /\ Serving(storeOk)
       /\ id < nextId
       /\ todos' = r.todos
       /\ resp' = r.resp
       /\ UNCHANGED <<nextId, deleted, now, createdAtDefault,
                      updatedAtDefault, typoSite, procVars>>

deleteTodo(id, storeOk) ==
    LET r == deleteTodoResult(todos, id, storeOk)
    IN /\ Serving(storeOk)
       /\ id < nextId
       /\ todos' = r.todos
       /\ deleted' = IF r.resp.status = 200 /\ Stored(todos, id)
                     THEN deleted \cup {id}
                     ELSE deleted
       /\ resp' = r.resp
       /\ UNCHANGED <<nextId, now, createdAtDefault, updatedAtDefault,
                      typoSite, procVars>>

Next ==
    \/ Tick
    \/ dbConnectThen
    \/ dbConnectCatch
    \/ \E t \in BodyValues, d \in BodyValues, ok \in BOOLEAN :
          createTodo(t, d, ok)
    \/ \E ok \in BOOLEAN : getTodo(ok)
    \/ \E id \in RequestIds, ok \in BOOLEAN : getTodoById(id, ok)
    \/ \E id \in RequestIds, t \in Texts, d \in Texts, ok \in BOOLEAN :
          updateTodo(id, Given(t), Given(d), ok)
    \/ \E id \in RequestIds, ok \in BOOLEAN : deleteTodo(id, ok)

Spec == Init /\ [][Next]_vars

\* ------------------------------------------------------ the application
\* The same program entered at index.js: every request, whatever its method
\* and path, goes through the router. The bodies carry both fields with a
\* valid text.
RouterTexts == {Rep(MaxLength)}

request(method, path, title, description, storeOk) ==
    LET r == dispatch(method, path, title, description, todos, nextId,
                      storeOk, now)
    IN /\ Serving(storeOk)
       /\ path.hasId => path.id < nextId
       /\ r.nextId <= MaxIds + 1
       /\ todos' = r.todos
       /\ nextId' = r.nextId
       /\ deleted' = IF /\ r.resp.op = "deleteTodo" /\ r.resp.status = 200
                        /\ Stored(todos, path.id)
                     THEN deleted \cup {path.id} ELSE deleted
       /\ resp' = r.resp
       /\ UNCHANGED <<now, createdAtDefault, updatedAtDefault, typoSite,
                      procVars>>

RouterNext ==
    \/ Tick
    \/ dbConnectThen
    \/ dbConnectCatch
    \/ \E m \in Methods, p \in Paths, t \in RouterTexts, d \in RouterTexts,
          ok \in BOOLEAN : request(m, p, Given(t), Given(d), ok)

RouterSpec == Init /\ [][RouterNext]_vars

\* ------------------------------------------------------------------ claims
\* The requests the properties below range over: those of Next and, beside
\* them, bodies carrying a second valid string.
AnyTexts == Texts \cup {Rep(1)}
AnyBodyValues == {Absent} \cup {Given(t) : t \in AnyTexts}

IdsOf(c) == {c[i].id : i \in 1..Len(c)}

\* The document stored under id (id must be stored).
DocOf(c, id) == c[CHOOSE i \in 1..Len(c) : c[i].id = id]

\* C1: a create whose title or description is absent, empty or longer than
\* 50 characters is answered with the validation failure (status 500,
\* success false, the validation message) and leaves the collection as it
\* was, whether or not the store answers.
CreateRejectsInvalid ==
    \A t \in AnyBodyValues, d \in AnyBodyValues, ok \in BOOLEAN :
        (\/ ~t.given \/ Len(t.val) = 0 \/ Len(t.val) > 50
         \/ ~d.given \/ Len(d.val) = 0 \/ Len(d.val) > 50)
        => LET r == createTodoResult(todos, nextId, t, d, ok)
           IN /\ r.resp.status = 500
              /\ r.resp.success = FALSE
              /\ r.resp.message = ValidationMsg
              /\ r.todos = todos
              /\ r.nextId = nextId

\* C1 witness: a create was rejected by validation while a todo is stored.
CreateRejectedSeen ==
    /\ resp.op = "createTodo"
    /\ resp.status = 500
    /\ resp.message = ValidationMsg
    /\ Len(todos) > 0

\* C2: every stored todo has a non-empty title of at most 50 characters and
\* a non-empty description of at most 50 characters.
StoredFieldsValid ==
    \A i \in 1..Len(todos) :
        /\ Len(todos[i].title) > 0 /\ Len(todos[i].title) <= 50
        /\ Len(todos[i].description) > 0 /\ Len(todos[i].description) <= 50

\* C3: getById, update and deleteById on a well-formed id that matches no
\* stored todo, with the store answering, each respond 404.
MissingIdIsNotFound ==
    [][(isValidObjectId(resp'.id) /\ ~Stored(todos, resp'.id)) =>
         ((\/ getTodoById(resp'.id, TRUE)
           \/ deleteTodo(resp'.id, TRUE)
           \/ \E t \in Texts, d \in Texts :
                 updateTodo(resp'.id, Given(t), Given(d), TRUE))
          => resp'.status = 404)]_vars

\* What C4 says of an update of a stored id apart from the new updatedAt:
\* success, title and description replaced by the given values, id and
\* createdAt kept, every other todo untouched.
UpdateReplaces(r, id, t, d) ==
    /\ r.resp.status = 200
    /\ Len(r.todos) = Len(todos)
    /\ \A i \in 1..Len(todos) :
          IF todos[i].id = id
          THEN /\ r.todos[i].id = id
               /\ r.todos[i].title = t
               /\ r.todos[i].description = d
               /\ r.todos[i].createdAt = todos[i].createdAt
          ELSE r.todos[i] = todos[i]

\* C4 (as amended): a successful update of a stored id replaces title and
\* description, keeps id and createdAt, leaves every other todo unchanged,
\* and sets updatedAt to the clock reading of the update, which is not
\* earlier than the previous updatedAt.
UpdateSemantics ==
    \A id \in IdsOf(todos), t \in AnyTexts, d \in AnyTexts :
        LET r == updateTodoResult(todos, id, Given(t), Given(d), TRUE, now)
        IN /\ UpdateReplaces(r, id, t, d)
           /\ DocOf(r.todos, id).updatedAt = now
           /\ DocOf(r.todos, id).updatedAt >= DocOf(todos, id).updatedAt

\* C4 (as claimed): an update step on a stored id, the store answering,
\* does the same and leaves updatedAt strictly later than before.
UpdateStrictlyLater ==
    [][(resp'.op = "updateTodo" /\ Stored(todos, resp'.id)) =>
         \A t \in Texts, d \in Texts :
            updateTodo(resp'.id, Given(t), Given(d), TRUE)
            => (/\ UpdateReplaces([todos |-> todos', resp |-> resp'],
                                  resp'.id, t, d)
                /\ DocOf(todos', resp'.id).updatedAt
                      > DocOf(todos, resp'.id).updatedAt)]_vars

\* C4 witness: an update has succeeded on one of two stored todos, changed
\* its title and moved its updatedAt past its createdAt, the other todo
\* still being as created.
UpdateSeen ==
    /\ resp.op = "updateTodo"
    /\ resp.status = 200
    /\ Len(resp.data) = 1
    /\ Len(todos) = 2
    /\ resp.data[1].updatedAt > resp.data[1].createdAt
    /\ \E i \in 1..2 :
          /\ todos[i].id # resp.id
          /\ todos[i].title # resp.data[1].title
          /\ todos[i].updatedAt = updatedAtDefault

\* C5: a create with a valid title and description stores and returns
\* them, and a getById that follows it, on the id the create returned and
\* with the store answering, yields that title and description and a
\* createdAt equal to the updatedAt.
CreateThenGetRoundTrip ==
    [][/\ \A t \in BodyValues, d \in BodyValues :
            (validate(t, d) /\ createTodo(t, d, TRUE))
            => (/\ resp'.status = 200
                /\ resp'.data[1].title = t.val
                /\ resp'.data[1].description = d.val)
       /\ (resp.op = "createTodo" /\ resp.status = 200) =>
            (getTodoById(resp.data[1].id, TRUE)
             => (/\ resp'.status = 200
                 /\ resp'.data[1].title = resp.data[1].title
                 /\ resp'.data[1].description = resp.data[1].description
                 /\ resp'.data[1].createdAt = resp'.data[1].updatedAt))]_vars

\* C6: once a delete has removed the todo of an id, every later getById of
\* that id is answered 404 when the store answers, and never with a todo,
\* whatever was created, updated or deleted since.
DeleteIsFinal ==
    \A id \in deleted, ok \in BOOLEAN :
        LET g == getTodoByIdResult(todos, id, ok)
        IN /\ g.status # 200
           /\ g.data = <<>>
           /\ ok => g.status = 404

\* C6 witness: a getById of a deleted id was answered 404 after a later
\* create.
DeletedGetSeen ==
    /\ resp.op = "getTodoById"
    /\ resp.id \in deleted
    /\ resp.status = 404
    /\ \E i \in 1..Len(todos) : todos[i].id > resp.id

\* C7: with the store answering, listAll succeeds and its data holds each
\* id that was assigned and not deleted exactly once, with the document
\* stored under it, and nothing else; on the empty store it succeeds with
\* the empty sequence.
ListIsExact ==
    LET g == getTodoResult(todos, TRUE)
    IN /\ g.status = 200
       /\ IdsOf(g.data) = (1..(nextId - 1)) \ deleted
       /\ Len(g.data) = Cardinality(IdsOf(g.data))
       /\ \A i \in 1..Len(g.data) :
             g.data[i] = DocOf(todos, g.data[i].id)
       /\ todos = <<>> => g.data = <<>>

\* C7 witness: a list was answered with the one todo left after another
\* was deleted.
ListSeen ==
    /\ resp.op = "getTodo"
    /\ resp.status = 200
    /\ Len(resp.data) = 1
    /\ deleted # {}

\* C8: every response carries the field "success", false with a message on
\* a failure and true on a success.
EnvelopeHasSuccess ==
    resp.op # "none" =>
        /\ resp.flag = "success"
        /\ resp.success = (resp.status = 200)
        /\ resp.status # 200 => resp.message # ""

\* C9: every stored todo has createdAt <= updatedAt.
CreatedNotAfterUpdated ==
    \A i \in 1..Len(todos) : todos[i].createdAt <= todos[i].updatedAt

\* C9 witness: an updated todo, with createdAt before updatedAt, is stored
\* beside one still as created.
UpdatedLaterSeen ==
    /\ resp.op = "updateTodo"
    /\ \E i \in 1..Len(todos), j \in 1..Len(todos) :
          /\ todos[i].createdAt < todos[i].updatedAt
          /\ todos[i].updatedAt = now
          /\ todos[j].id # todos[i].id
          /\ todos[j].updatedAt = updatedAtDefault

\* C10: a getById whose id is not a well-formed ObjectId is answered 404,
\* the store answering.
MalformedIdIsNotFound ==
    [][(resp'.op = "getTodoById" /\ ~isValidObjectId(resp'.id)) =>
         (getTodoById(resp'.id, TRUE) => resp'.status = 404)]_vars

\* C11: when the connection attempted at startup fails, that step ends the
\* process with exit code 1; and no other step (a request handler answering,
\* with a failure or not) ends the process.
StartupFailureExits ==
    [][ /\ (conn = "connecting" /\ conn' = "failed")
            => (proc' = "exited" /\ exitCode' = 1)
        /\ (conn' = conn) => (proc' = proc /\ exitCode' = exitCode) ]_vars

\* The five combinations of method and path the claim names, under the mount.
FiveServed ==
    {<<"POST", "createTodos", FALSE>>, <<"GET", "getTodos", FALSE>>,
     <<"GET", "getTodo", TRUE>>, <<"PUT", "updateTodo", TRUE>>,
     <<"DELETE", "deleteTodo", TRUE>>}

IsServed(m, p) == p.prefix = Mount /\ <<m, p.name, p.hasId>> \in FiveServed

IsRoot(p) == p.prefix = "" /\ p.name = "" /\ ~p.hasId

\* C12 as stated: each of the five combinations is answered by its
\* operation, and a request with any other method or path gets the
\* not-found response, status 404, and leaves the store unchanged.
OnlyFiveServed ==
    [][\A m \in Methods, p \in Paths, t \in RouterTexts, ok \in BOOLEAN :
          request(m, p, Given(t), Given(t), ok) =>
             IF IsServed(m, p)
             THEN usesStore(resp'.op)
             ELSE /\ resp'.op = "notFound"
                  /\ resp'.status = 404
                  /\ todos' = todos
                  /\ nextId' = nextId]_vars

\* C12 amended: each of the five combinations is answered by its operation.
\* A request with any other method or path leaves the store unchanged, and
\* gets the not-found response, status 404, unless it is GET or HEAD on "/"
\* (the home page, 200), HEAD on the path of one of the GET combinations
\* (the status GET gets, no body), or OPTIONS on "/" or on the path of one
\* of the five (200, answered by the router).
OnlyFiveReachStore ==
    \A m \in Methods, p \in Paths, t \in AnyBodyValues, d \in AnyBodyValues,
       ok \in BOOLEAN :
       LET r == dispatch(m, p, t, d, todos, nextId, ok, now)
           get == dispatch("GET", p, t, d, todos, nextId, ok, now)
       IN IF IsServed(m, p)
          THEN usesStore(r.resp.op)
          ELSE /\ r.todos = todos
               /\ r.nextId = nextId
               /\ IF IsRoot(p) /\ m \in {"GET", "HEAD"}
                  THEN r.resp.op = "home" /\ r.resp.status = 200
                  ELSE IF m = "HEAD" /\ IsServed("GET", p)
                  THEN /\ r.resp.op = "head"
                       /\ r.resp.status = get.resp.status
                       /\ r.resp.data = <<>>
                  ELSE IF /\ m = "OPTIONS"
                          /\ IsRoot(p) \/ \E n \in Methods : IsServed(n, p)
                  THEN r.resp.op = "options" /\ r.resp.status = 200
                  ELSE r.resp.op = "notFound" /\ r.resp.status = 404

\* C12 witness: with a todo stored, a request outside the five has been
\* answered with the not-found response.
NotFoundSeen ==
    /\ resp.op = "notFound"
    /\ resp.status = 404
    /\ Len(todos) > 0

====
